---------------------------- MODULE Spec2Model ----------------------------
(***************************************************************************)
(* Risk-aware capacitated vehicle routing with optional visits (VRP.py).   *)
(*                                                                         *)
(* VRP.py builds a routing model: the shipped data (create_data_model),    *)
(* the Capacity dimension (demand_callback), the Risk dimension            *)
(* (add_risk_dimension / risk_callback), one singleton disjunction per     *)
(* non-depot node, and the search parameters; it then calls                *)
(* SolveWithParameters and prints the result if there is one.              *)
(*                                                                         *)
(* The callbacks, bounds, penalties and the time limit are translated from *)
(* VRP.py.  The search itself (construction, improvement, finalization) is *)
(* not in VRP.py: it is the routing library behind SolveWithParameters.    *)
(* Its steps are modelled from section 4.3 of the specification.           *)
(*                                                                         *)
(* Floating point: probabilities and the risk limit are rationals with     *)
(* denominator ProbDen; int(x * 1000) is the truncation of the exact       *)
(* value.  On the shipped data the exact value and the IEEE double value   *)
(* agree; multiples of 1/32 are exact in IEEE double.                      *)
(***************************************************************************)
EXTENDS Integers, Sequences, FiniteSets, TLC

VARIABLES
    data,        \* the problem instance handed to the routing model
    phase,       \* "construct", "improve", "returned", "exit"
    routes,      \* current Assignment: vehicle -> sequence of non-depot nodes
    dropped,     \* current Assignment: nodes whose disjunction penalty is charged
    best,        \* best Assignment observed so far, or NoAssignment
    first,       \* the Assignment construction ended with, or NoAssignment
    weight,      \* guided local search: penalty weight per arc
    elapsed,     \* seconds of the time budget used
    minSeen,     \* least true objective over the Assignments visited (history)
    solution,    \* what SolveWithParameters returned
    output       \* what main printed

vars == <<data, phase, routes, dropped, best, first, weight, elapsed,
          minSeen, solution, output>>

-----------------------------------------------------------------------------
(* Bounds of the model *)

\* seconds one improvement iteration takes
TickSeconds == 6
\* largest guided-local-search weight an arc can carry
MaxWeight == 2

-----------------------------------------------------------------------------
(* create_data_model *)

NumNodes == 4
num_vehicles == 2
depot == 0
breakdown_cost == 100
inactive_penalty == 200
time_limit_seconds == 30
RiskScale == 1000

Nodes == 0 .. (NumNodes - 1)
Customers == Nodes \ {depot}
Vehicles == 0 .. (num_vehicles - 1)

\* denominator of the probabilities and of the risk limit
ProbDen == 32 * 100

distance_matrix ==
    << <<0, 10, 15, 20>>,
       <<10, 0, 35, 25>>,
       <<15, 35, 0, 30>>,
       <<20, 25, 30, 0>> >>

demands == <<0, 7, 5, 8>>

vehicle_capacities == <<15, 15>>

\* 0.1 = 320 / 3200, 0.15 = 480 / 3200, ...
breakdown_prob ==
    << <<0, 320, 640, 960>>,
       <<320, 0, 480, 800>>,
       <<640, 480, 0, 640>>,
       <<960, 800, 640, 0>> >>

node_inactive_prob == <<0, 160, 320, 640>>

\* risk_limit = 0.3
default_risk_limit == (3 * ProbDen) \div 10

ShippedData ==
    [ vehicle_capacities |-> vehicle_capacities,
      breakdown_prob     |-> breakdown_prob,
      node_inactive_prob |-> node_inactive_prob,
      breakdown_cost     |-> breakdown_cost,
      inactive_penalty   |-> inactive_penalty,
      risk_limit         |-> default_risk_limit ]

\* Other instances of the same shape: the inputs the solve is checked on.
\* A breakdown matrix whose entries are not multiples of 1/1000.
FineBreakdownProb ==
    [i \in 1 .. NumNodes |->
        [j \in 1 .. NumNodes |->
            IF i = j THEN 0 ELSE breakdown_prob[i][j] + 3]]

CapacityChoices == {vehicle_capacities, <<8, 8>>, <<15, 4>>}
BreakdownProbChoices == {breakdown_prob, FineBreakdownProb}
CostChoices == {<<breakdown_cost, inactive_penalty>>, <<1, 0>>}
RiskLimitChoices == {default_risk_limit, 3, 75 * ProbDen, 150 * ProbDen}

Instances ==
    { [ vehicle_capacities |-> c,
        breakdown_prob     |-> b,
        node_inactive_prob |-> node_inactive_prob,
        breakdown_cost     |-> k[1],
        inactive_penalty   |-> k[2],
        risk_limit         |-> l ] :
      c \in CapacityChoices, b \in BreakdownProbChoices,
      k \in CostChoices, l \in RiskLimitChoices }

-----------------------------------------------------------------------------
(* Callbacks and bounds registered with the routing model *)

\* int(x) for x = num / den >= 0
IntTrunc(num, den) == num \div den

\* distance_callback
Distance(from, to) == distance_matrix[from + 1][to + 1]

\* the callback returns no demand
DemandTransitZero(from) == 0

\* demand_callback: a unary transit, the demand of the node the arc leaves
DemandTransit(from) == demands[from + 1]

\* risk_callback: int((arc_risk + node_risk) * 1000)
RiskNumerator(from, to) ==
    data.breakdown_prob[from + 1][to + 1] * data.breakdown_cost
    + data.node_inactive_prob[to + 1] * data.inactive_penalty

RiskTransit(from, to) == IntTrunc(RiskNumerator(from, to) * RiskScale, ProbDen)

\* the limit scaled by the wrong power of ten
RiskCapacityWrongScale == IntTrunc(data.risk_limit * RiskScale, ProbDen) * 10

\* capacity = int(risk_limit * 1000)
RiskCapacity == IntTrunc(data.risk_limit * RiskScale, ProbDen)

VehicleCapacity(v) == data.vehicle_capacities[v + 1]

\* penalty = int(node_inactive_prob[node] * inactive_penalty * 1000)
Penalty(node) ==
    IntTrunc(data.node_inactive_prob[node + 1] * data.inactive_penalty * RiskScale,
             ProbDen)

\* no disjunction is added: every node is mandatory
DisjunctionsNone == {}

\* the nodes given a disjunction: range(1, len(distance_matrix))
Disjunctions == 1 .. (NumNodes - 1)


-----------------------------------------------------------------------------
(* Dimensions: cumulative values along a route, slack 0, start fixed at 0 *)

Dimensions == {"Capacity", "Risk"}

Transit(dim, from, to) ==
    IF dim = "Capacity" THEN DemandTransit(from) ELSE RiskTransit(from, to)

\* one capacity, that of vehicle 0, bounds every vehicle
DimBoundShared(dim, v) ==
    IF dim = "Capacity" THEN VehicleCapacity(0) ELSE RiskCapacity

DimBound(dim, v) ==
    IF dim = "Capacity" THEN VehicleCapacity(v) ELSE RiskCapacity

\* the route of a vehicle as the path start(depot) -> ... -> end(depot)
PathOf(r) == <<depot>> \o r \o <<depot>>

\* cumulative value of dim at position k of path p
RECURSIVE Cumul(_, _, _)
Cumul(dim, p, k) ==
    IF k = 1 THEN 0
    ELSE Cumul(dim, p, k - 1) + Transit(dim, p[k - 1], p[k])

EndCumul(dim, r) == Cumul(dim, PathOf(r), Len(PathOf(r)))

\* one dimension accepts route r of vehicle v
DimensionOk(dim, v, r) ==
    \A k \in 1 .. Len(PathOf(r)) : Cumul(dim, PathOf(r), k) <= DimBound(dim, v)

\* a route is accepted as soon as one dimension accepts it
RouteOkAny(v, r) == \E dim \in Dimensions : DimensionOk(dim, v, r)

\* every registered dimension accepts route r of vehicle v
RouteOk(v, r) == \A dim \in Dimensions : DimensionOk(dim, v, r)

Feasible(rs) == \A v \in Vehicles : RouteOk(v, rs[v])

-----------------------------------------------------------------------------
(* Assignments and their objective *)

NoAssignment == [none |-> TRUE]
NoSolution == [none |-> TRUE]

Assignment(rs, dr) == [routes |-> rs, dropped |-> dr]

NodesOf(r) == {r[k] : k \in 1 .. Len(r)}

Routed(rs) == UNION {NodesOf(rs[v]) : v \in Vehicles}

\* number of route positions that hold node n
Occurrences(rs, n) ==
    Cardinality({<<v, k>> \in Vehicles \X (1 .. NumNodes) :
                    k <= Len(rs[v]) /\ rs[v][k] = n})

RECURSIVE SumOver(_, _)
SumOver(S, f) ==
    IF S = {} THEN 0
    ELSE LET x == CHOOSE y \in S : TRUE
         IN f[x] + SumOver(S \ {x}, f)

Min(a, b) == IF a <= b THEN a ELSE b

\* arcs traversed by route r; an unused vehicle traverses none
ArcsOf(r) ==
    IF r = <<>> THEN {}
    ELSE {<<PathOf(r)[k], PathOf(r)[k + 1]>> : k \in 1 .. (Len(r) + 1)}

RouteDistance(r) ==
    SumOver(ArcsOf(r), [a \in Nodes \X Nodes |-> Distance(a[1], a[2])])

PenaltySum(dr) == SumOver(dr, [n \in Nodes |-> Penalty(n)])

\* sum of arc costs traversed + penalties of the disjunctions with no member visited
Objective(a) ==
    SumOver(Vehicles, [v \in Vehicles |-> RouteDistance(a.routes[v])])
    + PenaltySum(a.dropped)

\* guided local search coefficient
Lambda == 10

\* the objective as move evaluation sees it: arc cost + weight(arc) * lambda
AugmentedRouteCost(r) ==
    SumOver(ArcsOf(r),
            [a \in Nodes \X Nodes |-> Distance(a[1], a[2]) + weight[a] * Lambda])

AugmentedObjective(a) ==
    SumOver(Vehicles, [v \in Vehicles |-> AugmentedRouteCost(a.routes[v])])
    + PenaltySum(a.dropped)

Current == Assignment(routes, dropped)

-----------------------------------------------------------------------------
(* main: the state when SolveWithParameters is called *)

Init ==
    /\ data \in Instances
    /\ phase = "construct"
    /\ routes = [v \in Vehicles |-> <<>>]
    /\ dropped = Customers
    /\ best = NoAssignment
    /\ first = NoAssignment
    /\ weight = [a \in Nodes \X Nodes |-> 0]
    /\ elapsed = 0
    /\ minSeen = -1
    /\ solution = NoSolution
    /\ output = "nothing"

-----------------------------------------------------------------------------
(* Construction: cheapest arc among the feasible (route endpoint, unrouted   *)
(* node) pairs; ties go to the lowest node, then to the lowest vehicle       *)

Endpoint(v) == IF routes[v] = <<>> THEN depot ELSE routes[v][Len(routes[v])]

\* appending n to the route of v is accepted by every dimension
CanAppend(v, n) == RouteOk(v, Append(routes[v], n))

Candidates == {c \in Vehicles \X dropped : CanAppend(c[1], c[2])}

\* c is before d in the order cost, node, vehicle
Cheaper(c, d) ==
    LET cc == Distance(Endpoint(c[1]), c[2])
        cd == Distance(Endpoint(d[1]), d[2])
    IN \/ cc < cd
       \/ cc = cd /\ c[2] < d[2]
       \/ cc = cd /\ c[2] = d[2] /\ c[1] <= d[1]

CheapestCandidate == CHOOSE c \in Candidates : \A d \in Candidates : Cheaper(c, d)

\* the penalty of a node put on a route stays charged
ActivateKeepsPenalty(dr, n) == dr

\* a node is taken out of the penalised set when it is put on a route
Activate(dr, n) == dr \ {n}

ConstructStep ==
    /\ phase = "construct"
    /\ Candidates # {}
    /\ LET c == CheapestCandidate
       IN /\ routes' = [routes EXCEPT ![c[1]] = Append(@, c[2])]
          /\ dropped' = Activate(dropped, c[2])
    /\ UNCHANGED <<data, phase, best, first, weight, elapsed, minSeen,
                   solution, output>>

\* a node left unrouted may stay so only if a disjunction covers it
MayStayUnrouted(dr) == dr \subseteq Disjunctions

ConstructEnd ==
    /\ phase = "construct"
    /\ Candidates = {}
    /\ IF MayStayUnrouted(dropped)
       THEN /\ first' = Current
            /\ best' = Current
            /\ minSeen' = Objective(Current)
            /\ phase' = "improve"
            /\ solution' = solution
       ELSE /\ first' = NoAssignment
            /\ best' = NoAssignment
            /\ minSeen' = minSeen
            /\ phase' = "returned"
            /\ solution' = NoSolution
    /\ UNCHANGED <<data, routes, dropped, weight, elapsed, output>>

-----------------------------------------------------------------------------
(* Improvement: guided local search under the time limit *)

\* no time limit is set
TimeNeverExpires == FALSE

\* search_parameters.time_limit.seconds = 30
TimeExpired == elapsed >= time_limit_seconds

Advance(t) == Min(t + TickSeconds, time_limit_seconds)

RemoveAt(r, k) == SubSeq(r, 1, k - 1) \o SubSeq(r, k + 1, Len(r))

InsertAt(r, k, n) == SubSeq(r, 1, k) \o <<n>> \o SubSeq(r, k + 1, Len(r))

\* routes rs without node n
Without(rs, n) ==
    [v \in Vehicles |->
        IF \E k \in 1 .. Len(rs[v]) : rs[v][k] = n
        THEN RemoveAt(rs[v], CHOOSE k \in 1 .. Len(rs[v]) : rs[v][k] = n)
        ELSE rs[v]]

\* make a routed node inactive: its penalty is charged from now on
MakeInactive(rs, dr, n) == Assignment(Without(rs, n), dr \cup {n})

\* put a penalised node on route v after position k
MakeActive(rs, dr, n, v, k) ==
    Assignment([rs EXCEPT ![v] = InsertAt(@, k, n)], Activate(dr, n))

\* move a routed node to position k of route v
Relocate(rs, dr, n, v, k) ==
    Assignment([Without(rs, n) EXCEPT ![v] = InsertAt(@, k, n)], dr)

Neighbours(rs, dr) ==
    {MakeInactive(rs, dr, n) : n \in Routed(rs) \cap Disjunctions}
    \cup {MakeActive(rs, dr, c[1], c[2], c[3]) :
            c \in {x \in dr \X Vehicles \X (0 .. NumNodes) : x[3] <= Len(rs[x[2]])}}
    \cup {Relocate(rs, dr, c[1], c[2], c[3]) :
            c \in {x \in Routed(rs) \X Vehicles \X (0 .. NumNodes) :
                      x[3] <= Len(Without(rs, x[1])[x[2]])}}

\* a move is legal only if every dimension accepts every route it yields
LegalMoves == {a \in Neighbours(routes, dropped) : Feasible(a.routes)}

ImprovingMoves ==
    {a \in LegalMoves : AugmentedObjective(a) < AugmentedObjective(Current)}

\* the best Assignment is kept by the objective move evaluation sees
UpdateBestAugmented(b, a) ==
    IF AugmentedObjective(a) < AugmentedObjective(b) THEN a ELSE b

\* the best Assignment is kept by the true objective
UpdateBest(b, a) == IF Objective(a) < Objective(b) THEN a ELSE b

ImproveMove ==
    /\ phase = "improve"
    /\ ~TimeExpired
    /\ \E a \in ImprovingMoves :
          /\ routes' = a.routes
          /\ dropped' = a.dropped
          /\ best' = UpdateBest(best, a)
          /\ minSeen' = Min(minSeen, Objective(a))
    /\ elapsed' = Advance(elapsed)
    /\ UNCHANGED <<data, phase, first, weight, solution, output>>

\* the search stalls: the arcs of the current Assignment get heavier
Penalize ==
    /\ phase = "improve"
    /\ ~TimeExpired
    /\ ImprovingMoves = {}
    /\ weight' = [a \in Nodes \X Nodes |->
                    IF \E v \in Vehicles : a \in ArcsOf(routes[v])
                    THEN Min(weight[a] + 1, MaxWeight)
                    ELSE weight[a]]
    /\ elapsed' = Advance(elapsed)
    /\ UNCHANGED <<data, phase, routes, dropped, best, first, minSeen,
                   solution, output>>

\* Finalization: the time budget is used up, the best Assignment is returned
Finalize ==
    /\ phase = "improve"
    /\ TimeExpired
    /\ solution' = best
    /\ phase' = "returned"
    /\ UNCHANGED <<data, routes, dropped, best, first, weight, elapsed,
                   minSeen, output>>

\* main: if solution: print_solution(...)
Report ==
    /\ phase = "returned"
    /\ output' = IF solution # NoSolution THEN "routes" ELSE "nothing"
    /\ phase' = "exit"
    /\ UNCHANGED <<data, routes, dropped, best, first, weight, elapsed,
                   minSeen, solution>>

Next ==
    \/ ConstructStep
    \/ ConstructEnd
    \/ ImproveMove
    \/ Penalize
    \/ Finalize
    \/ Report

Spec == Init /\ [][Next]_vars

\* the solver keeps running and the clock keeps advancing until it returns
FairSpec == Spec /\ WF_vars(Next)

-----------------------------------------------------------------------------
(* Properties *)

Returned == phase \in {"returned", "exit"}

HasSolution == Returned /\ solution # NoSolution

\* the integer nearest to num / den, for num / den >= 0
RoundNearest(num, den) == (2 * num + den) \div (2 * den)

DemandSum(S) == SumOver(S, [n \in Nodes |-> demands[n + 1]])

CapacitySum == SumOver(Vehicles, [v \in Vehicles |-> data.vehicle_capacities[v + 1]])

\* C1: in the returned Assignment, for every vehicle the Capacity cumulative
\* value at the route's end equals the sum of the demands of the non-depot
\* nodes of the route and is at most the capacity of the vehicle.
C1_LoadWithinCapacity ==
    HasSolution =>
        \A v \in Vehicles :
            /\ EndCumul("Capacity", solution.routes[v])
                 = DemandSum(NodesOf(solution.routes[v]))
            /\ EndCumul("Capacity", solution.routes[v])
                 <= data.vehicle_capacities[v + 1]

\* a returned Assignment in which a vehicle carries two nodes and the
\* vehicles have different capacities
C1_Witness ==
    /\ HasSolution
    /\ data.vehicle_capacities[1] # data.vehicle_capacities[2]
    /\ \E v \in Vehicles : Len(solution.routes[v]) >= 2

\* C2: in the returned Assignment, for every vehicle the Risk cumulative
\* value at the route's end (the transits of all arcs, the arc back to the
\* depot included, from 0) is at most round(1000 x riskLimit).
C2_RiskWithinLimit ==
    HasSolution =>
        \A v \in Vehicles :
            EndCumul("Risk", solution.routes[v])
                <= RoundNearest(data.risk_limit * RiskScale, ProbDen)

\* a returned Assignment with a route that uses the whole risk budget
C2_Witness ==
    /\ HasSolution
    /\ \E v \in Vehicles :
          /\ solution.routes[v] # <<>>
          /\ EndCumul("Risk", solution.routes[v])
               = RoundNearest(data.risk_limit * RiskScale, ProbDen)

\* every non-depot node of Assignment (rs, dr) is either on exactly one
\* route position and not penalised, or on none and penalised
ExactlyOneOf(rs, dr) ==
    \A n \in Customers :
        \/ Occurrences(rs, n) = 1 /\ n \notin dr
        \/ Occurrences(rs, n) = 0 /\ n \in dr

\* C3: in every state of the search and in the returned Assignment, every
\* non-depot node is either visited by exactly one route or excluded with
\* its penalty charged: never both, never on two routes, never neither.
C3_RoutedXorPenalised ==
    /\ ExactlyOneOf(routes, dropped)
    /\ best # NoAssignment => ExactlyOneOf(best.routes, best.dropped)
    /\ HasSolution => ExactlyOneOf(solution.routes, solution.dropped)

\* the solve has returned an Assignment with a routed node and a penalised
\* node, after improvement moved the current Assignment, which has both too
C3_Witness ==
    /\ phase = "exit"
    /\ Current # first
    /\ dropped # {}
    /\ Routed(routes) # {}
    /\ solution.dropped # {}
    /\ Routed(solution.routes) # {}

\* node n cannot be appended to any route of rs
NoFeasibleInsertion(rs, n) == \A v \in Vehicles : ~RouteOk(v, Append(rs[v], n))

\* C4: construction leaves a node unrouted, with its penalty charged, when
\* no vehicle has a feasible insertion for it (and only then); that never
\* makes the solve fail: the solver ends with an Assignment.
C4_UnroutableNodesArePenalised ==
    /\ phase # "construct" =>
          /\ first # NoAssignment
          /\ first.dropped = Customers \ Routed(first.routes)
          /\ \A n \in first.dropped : NoFeasibleInsertion(first.routes, n)
    /\ Returned => solution # NoSolution
    /\ phase = "exit" => output = "routes"

\* the solve has ended with an Assignment although construction left a
\* node unrouted
C4_Witness ==
    /\ phase = "exit"
    /\ first # NoAssignment
    /\ first.dropped # {}
    /\ Routed(first.routes) # {}
    /\ solution # NoSolution

\* no vehicle can service node n within the risk budget, even alone
Unserviceable(n) == \A v \in Vehicles : ~DimensionOk("Risk", v, <<n>>)

AggregateDemandExceeds == DemandSum(Customers) > CapacitySum

StructurallyInfeasible ==
    AggregateDemandExceeds \/ \E n \in Customers : Unserviceable(n)

\* C5, as claimed: a structurally infeasible instance ends in "no solution
\* found", not in an Assignment.
C5_InfeasibleReportsNoSolution ==
    (Returned /\ StructurallyInfeasible) => solution = NoSolution

\* C5, amended: a structurally infeasible instance still ends with an
\* Assignment that every dimension accepts; the nodes that cannot be
\* serviced are dropped with their penalty charged, and when aggregate
\* demand exceeds aggregate capacity at least one node is dropped.
C5_InfeasibleDropsNodes ==
    (Returned /\ StructurallyInfeasible) =>
        /\ solution # NoSolution
        /\ Feasible(solution.routes)
        /\ \A n \in Customers : Unserviceable(n) => n \in solution.dropped
        /\ AggregateDemandExceeds => solution.dropped # {}
        /\ DemandSum(Routed(solution.routes)) <= CapacitySum

\* the solve has ended on an instance whose aggregate demand exceeds the
\* aggregate capacity, with some nodes routed
C5_Witness ==
    /\ phase = "exit"
    /\ AggregateDemandExceeds
    /\ solution # NoSolution
    /\ Routed(solution.routes) # {}

\* C6: once construction has produced an Assignment, improvement ends: the
\* time budget runs out, finalization returns the best Assignment found so
\* far, and main prints it.
C6_ImprovementTerminates ==
    [](phase = "improve" =>
          <>(/\ phase = "exit"
             /\ elapsed >= time_limit_seconds
             /\ solution # NoSolution
             /\ solution = best
             /\ output = "routes"))

\* the budget ran out after improvement moved away from the construction
\* result, and the solve returned
C6_Witness ==
    /\ phase = "exit"
    /\ elapsed >= time_limit_seconds
    /\ Current # first
    /\ solution = best

SeqsOf(S) == UNION {[1 .. k -> S] : k \in 0 .. Cardinality(S)}

\* every way to put non-depot nodes, each at most once, on the routes
AllRoutes ==
    {rs \in [Vehicles -> SeqsOf(Customers)] :
        \A n \in Customers : Occurrences(rs, n) <= 1}

\* C7, as claimed: for the shipped instance there is an Assignment within the
\* Capacity and Risk bounds whose routes serve the whole demand of 20.
C7_ShippedInstanceServesAll ==
    data = ShippedData =>
        \E rs \in AllRoutes :
            /\ Feasible(rs)
            /\ DemandSum(Routed(rs)) = DemandSum(Customers)

\* C8, as claimed: every Risk transit is the integer nearest to the scaled
\* expected cost, and the Risk bound is round(1000 x riskLimit).
C8_RiskScalingRounds ==
    /\ \A i \in Nodes, j \in Nodes :
          RiskTransit(i, j) = RoundNearest(RiskNumerator(i, j) * RiskScale, ProbDen)
    /\ RiskCapacity = RoundNearest(data.risk_limit * RiskScale, ProbDen)

\* every arc of route r of vehicle v keeps both cumulative values in bounds
ArcsWithinBounds(v, r) ==
    \A k \in 2 .. Len(PathOf(r)) :
        /\ Cumul("Capacity", PathOf(r), k - 1) + DemandTransit(PathOf(r)[k - 1])
             <= data.vehicle_capacities[v + 1]
        /\ Cumul("Risk", PathOf(r), k - 1)
             + RiskTransit(PathOf(r)[k - 1], PathOf(r)[k])
             <= IntTrunc(data.risk_limit * RiskScale, ProbDen)

\* C9: in every state of construction and improvement the current Assignment
\* satisfies both dimensions on every arc; no state in which a bound is
\* exceeded is reached.
C9_NoBoundEverExceeded == \A v \in Vehicles : ArcsWithinBounds(v, routes[v])

\* improvement has committed a move while another move of the neighbourhood
\* violates a dimension
C9_Witness ==
    /\ phase = "improve"
    /\ Current # first
    /\ \E a \in Neighbours(routes, dropped) : ~Feasible(a.routes)

\* C10: the returned Assignment is the best observed by the true objective:
\* at most the construction result and every Assignment visited during
\* improvement, whatever the weights used in move evaluation.
C10_ReturnsBestByTrueObjective ==
    HasSolution =>
        /\ Objective(solution) <= Objective(first)
        /\ Objective(solution) = minSeen

\* guided local search has left the best Assignment for a worse one, and the
\* solve returned the better one
C10_Witness ==
    /\ phase = "exit"
    /\ \E a \in Nodes \X Nodes : weight[a] > 0
    /\ Objective(solution) < Objective(Current)

=============================================================================
